---------------------------- MODULE Spec2Model ----------------------------
(***************************************************************************)
(* Model of the OpenAlex layer of streamlit_app.py: the cursor walk of     *)
(* get_citing_works, the country tally of citing_countries, the impact     *)
(* factor table ImpactFactorDB, notability_score and the two-hop ranking   *)
(* second_order; of the resolve handlers of the Publications tab; and of   *)
(* the retry loop of call_glm.                                             *)
(*                                                                         *)
(* Python values are modelled as follows.  A str is a sequence of          *)
(* one-character strings, so that lower(), upper(), strip() and the `in`   *)
(* substring test are computed and not assumed.  A JSON field that may be  *)
(* missing or null is a record [t, v]: t = "absent" (the key is not in the *)
(* dict), t = "null" (the key maps to None) or t = "val" (v is the value). *)
(* A dict is a sequence of [k, v] pairs in insertion order.                *)
(***************************************************************************)
EXTENDS Integers, Sequences, FiniteSets, TLC

VARIABLES
  lookup,     \* ImpactFactorDB.lookup of the database in use
  venue_q,    \* argument of the last ImpactFactorDB.get call
  if_ret,     \* value returned by the last ImpactFactorDB.get call
  op,         \* the call in progress
  pc,         \* position of the running call
  wid,        \* openalex_id of the walk in progress
  per_page,   \* per_page of the walk in progress
  max_pages,  \* max_pages of the walk in progress
  out,        \* get_citing_works: records accumulated so far
  cursor,     \* get_citing_works: cursor the next request carries
  npage,      \* get_citing_works: loop iterations (requests) of this walk
  lastlen,    \* number of results in the last response of this walk
  sent,       \* cursor carried by the last request of this walk
  resp,       \* last response of this walk: its results and its next_cursor
  allfull,    \* every response of this walk was a full page with a next cursor
  fault,      \* a page request raised and nothing caught the exception
  served,     \* records the provider has served since the call started
  counts,     \* citing_countries: the returned mapping
  citing,     \* citing_countries: the returned raw list
  per_l2,     \* second_order: per_l2 argument
  pages_l2,   \* second_order: pages_l2 argument
  l1,         \* second_order: first-hop works
  i,          \* second_order: enumerate index of the first-hop work in hand
  l2_map,     \* second_order: merged second-hop table
  seen,       \* second_order: second-hop records offered to the merge, in order
  failed,     \* second_order: indices of first-hop works whose fetch raised
  rows,       \* second_order: the returned table
  err,        \* exception that reached the caller ("" if none)
  timeout_s,  \* call_glm: timeout_s argument
  attempt,    \* call_glm: enumerate index of the last POST attempt
  outcome,    \* call_glm: what the last POST attempt met
  last,       \* call_glm: text of the last response received
  slept,      \* call_glm: seconds slept before attempts so far
  glm_res,    \* call_glm: the returned value
  view,       \* what the handler in progress has shown to the user
  pubs,       \* st.session_state.pubs
  item        \* resolve handlers: the resolved work

vars == << lookup, venue_q, if_ret, op, pc, wid, per_page, max_pages, out,
           cursor, npage, lastlen, sent, resp, allfull, fault, served, counts,
           citing, per_l2, pages_l2, l1, i, l2_map, seen, failed, rows, err,
           timeout_s, attempt, outcome, last, slept, glm_res, view, pubs,
           item >>

---------------------------------------------------------------------------
(* Bounds of the model *)

\* largest per_page of a direct get_citing_works call
MaxPerPage == 2
\* largest max_pages of a direct get_citing_works call
MaxPages == 2
\* citing works the provider holds for the work citing_countries is asked about
MaxWorks == 3
\* first-hop works the provider holds for the work second_order is asked about
MaxL1Works == 2
\* second-hop records the provider serves during one second_order call
MaxL2Works == 2
\* largest number of rows of a caller-supplied impact-factor table
MaxRows == 2
\* rows of st.session_state.pubs from which on no resolve button is pressed
MaxPubs == 3

---------------------------------------------------------------------------
(* Python str as a sequence of characters *)

lowerOf ==
  [ A |-> "a", B |-> "b", C |-> "c", D |-> "d", E |-> "e", F |-> "f", G |-> "g",
    H |-> "h", I |-> "i", J |-> "j", K |-> "k", L |-> "l", M |-> "m", N |-> "n",
    O |-> "o", P |-> "p", Q |-> "q", R |-> "r", S |-> "s", T |-> "t", U |-> "u",
    V |-> "v", W |-> "w", X |-> "x", Y |-> "y", Z |-> "z" ]

upperOf ==
  [ a |-> "A", b |-> "B", c |-> "C", d |-> "D", e |-> "E", f |-> "F", g |-> "G",
    h |-> "H", i |-> "I", j |-> "J", k |-> "K", l |-> "L", m |-> "M", n |-> "N",
    o |-> "O", p |-> "P", q |-> "Q", r |-> "R", s |-> "S", t |-> "T", u |-> "U",
    v |-> "V", w |-> "W", x |-> "X", y |-> "Y", z |-> "Z" ]

\* str.lower()
Lower(s) == [ n \in 1..Len(s) |-> IF s[n] \in DOMAIN lowerOf THEN lowerOf[s[n]] ELSE s[n] ]

\* str.upper()
Upper(s) == [ n \in 1..Len(s) |-> IF s[n] \in DOMAIN upperOf THEN upperOf[s[n]] ELSE s[n] ]

\* str.strip(): leading and trailing blanks removed
Strip(s) ==
  LET nb == { n \in 1..Len(s) : s[n] # " " }
  IN  IF nb = {} THEN << >>
      ELSE LET lo == CHOOSE n \in nb : \A m \in nb : n <= m
               hi == CHOOSE n \in nb : \A m \in nb : m <= n
           IN  SubSeq(s, lo, hi)

\* k in s  (substring test)
Contains(s, k) ==
  \E n \in 0..(Len(s) - Len(k)) : SubSeq(s, n + 1, n + Len(k)) = k

---------------------------------------------------------------------------
(* JSON fields and the dict idioms of the source *)

Absent == [t |-> "absent", v |-> << >>]
Null == [t |-> "null", v |-> << >>]
Str(s) == [t |-> "val", v |-> s]
AbsentInt == [t |-> "absent", v |-> 0]
NullInt == [t |-> "null", v |-> 0]
Int_(n) == [t |-> "val", v |-> n]

\* d.get(key, default)
Get(x, default) == IF x.t = "absent" THEN default ELSE x

\* d.get(key): a missing key reads as None
GetNone(x) == IF x.t = "absent" THEN Null ELSE x

\* truth value of a str or list field
Truthy(x) == x.t = "val" /\ x.v # << >>

\* x or default
OrElse(x, default) == IF Truthy(x) THEN x ELSE default

---------------------------------------------------------------------------
(* Constants of the source *)

TOP_VENUES ==
  { <<"n", "a", "t", "u", "r", "e">>,
    <<"s", "c", "i", "e", "n", "c", "e">>,
    <<"c", "e", "l", "l">>,
    <<"p", "n", "a", "s">>,
    <<"j", "a", "c", "s">>,
    <<"a", "d", "v", "a", "n", "c", "e", "d", " ", "m", "a", "t", "e", "r", "i", "a", "l", "s">>,
    <<"a", "n", "g", "e", "w", "a", "n", "d", "t", "e">>,
    <<"e", "n", "e", "r", "g", "y", " ", "&", " ", "e", "n", "v", "i", "r", "o", "n", "m", "e", "n", "t", "a", "l", " ", "s", "c", "i", "e", "n", "c", "e">>,
    <<"n", "e", "u", "r", "i", "p", "s">>,
    <<"i", "c", "m", "l">>,
    <<"i", "c", "l", "r">>,
    <<"c", "v", "p", "r">>,
    <<"a", "a", "a", "i">>,
    <<"k", "d", "d">>,
    <<"w", "w", "w">>,
    <<"a", "c", "l">> }

TOP_INSTITUTIONS ==
  { <<"m", "i", "t">>,
    <<"s", "t", "a", "n", "f", "o", "r", "d">>,
    <<"h", "a", "r", "v", "a", "r", "d">>,
    <<"b", "e", "r", "k", "e", "l", "e", "y">>,
    <<"c", "a", "l", "t", "e", "c", "h">>,
    <<"o", "x", "f", "o", "r", "d">>,
    <<"c", "a", "m", "b", "r", "i", "d", "g", "e">>,
    <<"g", "o", "o", "g", "l", "e">>,
    <<"d", "e", "e", "p", "m", "i", "n", "d">>,
    <<"o", "p", "e", "n", "a", "i">>,
    <<"m", "e", "t", "a", " ", "a", "i">>,
    <<"m", "i", "c", "r", "o", "s", "o", "f", "t">>,
    <<"i", "b", "m">>,
    <<"t", "s", "i", "n", "g", "h", "u", "a">>,
    <<"p", "k", "u">>,
    <<"u", "s", "t", "c">>,
    <<"z", "h", "e", "j", "i", "a", "n", "g">> }

\* the factor ImpactFactorDB.get gives a prestige venue that is not in the table
PrestigeIF == 25

---------------------------------------------------------------------------
(* Dicts as insertion-ordered sequences of [k, v] pairs *)

Keys(d) == { d[n].k : n \in 1..Len(d) }

Has(d, key) == key \in Keys(d)

At(d, key) == (CHOOSE n \in 1..Len(d) : d[n].k = key)

Lookup(d, key) == d[At(d, key)].v

\* d[key] = value: a new key goes last, an old key keeps its place
Put(d, key, value) ==
  IF Has(d, key) THEN [d EXCEPT ![At(d, key)] = [k |-> key, v |-> value]]
  ELSE Append(d, [k |-> key, v |-> value])

---------------------------------------------------------------------------
(* ImpactFactorDB *)

\* venues used as inputs
sNature == <<"N", "a", "t", "u", "r", "e">>
sNaturePad == <<" ", "N", "a", "t", "u", "r", "e", " ">>
sNatComm == <<"N", "a", "t", "u", "r", "e", " ", "C", "o", "m", "m", "s">>
sFoo == <<"F", "o", "o">>
sFooPad == <<" ", "f", "o", "o", " ">>
sOracle == <<"O", "r", "a", "c", "l", "e">>
sBlank == <<" ">>

\* rows of a caller-supplied table: venue text, and the "if" cell, which is
\* numeric (num = TRUE, val its value) or text float() rejects
TableRows ==
  { [venue |-> sFooPad,  num |-> TRUE,  val |-> 3],
    [venue |-> sNature,  num |-> TRUE,  val |-> 40],
    [venue |-> sFoo,     num |-> TRUE,  val |-> 9],
    [venue |-> sOracle,  num |-> FALSE, val |-> 0],
    [venue |-> sNatComm, num |-> TRUE,  val |-> 12] }

\* a data frame argument: None, a frame without the two columns, or rows
Tables ==
  { [kind |-> "none", rows |-> << >>], [kind |-> "nocols", rows |-> << >>] }
  \cup { [kind |-> "frame", rows |-> r] :
           r \in UNION { [1..n -> TableRows] : n \in 0..MaxRows } }

RECURSIVE BuildLookup(_, _)
\* the loop of __init__ over the rows, from row n on
BuildLookup(rws, d) ==
  IF rws = << >> THEN d
  ELSE LET r == Head(rws)
           v == Lower(Strip(r.venue))
       IN  BuildLookup(Tail(rws), IF r.num THEN Put(d, v, r.val) ELSE d)

\* ImpactFactorDB.__init__
ImpactFactorDB(df) ==
  IF df.kind = "frame" /\ df.rows # << >> THEN BuildLookup(df.rows, << >>)
  ELSE << >>

\* IFGet with the prestige test ahead of the table
IFGet_PrestigeFirst(lk, venue) ==
  IF ~Truthy(venue) THEN 0
  ELSE LET v == Strip(Lower(venue.v))
       IN  IF \E k \in TOP_VENUES : Contains(v, k) THEN PrestigeIF
           ELSE IF Has(lk, v) THEN Lookup(lk, v)
           ELSE 0

\* ImpactFactorDB.get; venue is a str field that may be None
IFGet(lk, venue) ==
  IF ~Truthy(venue) THEN 0
  ELSE LET v == Strip(Lower(venue.v))
       IN  IF Has(lk, v) THEN Lookup(lk, v)
           ELSE IF \E k \in TOP_VENUES : Contains(v, k) THEN PrestigeIF
           ELSE 0

\* venues a caller passes to get
Venues ==
  { Null, Str(<< >>), Str(sBlank), Str(sNature), Str(sNaturePad), Str(sNatComm),
    Str(sFoo), Str(sFooPad), Str(sOracle), Str(Lower(sFoo)) }


---------------------------------------------------------------------------
(* Work records of the provider *)

List(v) == [t |-> "val", v |-> v]

\* host_venue: v is the display_name field of the venue object
NoVenue == [t |-> "absent", v |-> Absent]
NullVenue == [t |-> "null", v |-> Absent]
Venue(dn) == [t |-> "val", v |-> dn]

Inst(cc, dn) == [country_code |-> cc, display_name |-> dn]

Auth(insts) == [institutions |-> insts]

Work(id, c, hv, au, yr, dn) ==
  [id |-> id, cited_by_count |-> c, host_venue |-> hv, authorships |-> au,
   publication_year |-> yr, display_name |-> dn]

sUS == <<"U", "S">>
sus == <<"u", "s">>
sde == <<"d", "e">>
sDE == <<"D", "E">>
sMIT == <<"M", "I", "T">>
sAcme == <<"A", "c", "m", "e">>
s2020 == <<"2", "0", "2", "0">>
sNA == <<"n", "/", "a">>

\* identifiers
idW1 == Str(<<"W", "1">>)
idA == Str(<<"A">>)
idB == Str(<<"B">>)
idX == Str(<<"X">>)
idY == Str(<<"Y">>)
idZ == Str(<<"Z">>)

\* the cursor sentinel of the first request
StarCursor == Str(<<"*">>)

\* what meta.next_cursor reads as: None (also when meta or the key is
\* missing), the empty string, or a cursor
NextCursors == { Null, Str(<< >>), Str(<<"c", "1">>), Str(<<"c", "2">>) }

\* the next cursors the two hops of second_order are answered with
HopCursors == { Null, Str(<<"c", "1">>) }

\* a page of at most n records out of pool
Pages(pool, n) == UNION { [1..m -> pool] : m \in 0..n }

Min(a, b) == IF a <= b THEN a ELSE b

---------------------------------------------------------------------------
(* get_citing_works *)

\* WalkDone with the cap tested one iteration late
WalkDone_LateCap(nxt, n, mp) == ~Truthy(nxt) \/ n > mp

\* WalkDone without the test of the next cursor
WalkDone_NoBreak(nxt, n, mp) == n >= mp

\* the loop of get_citing_works ends after response number n, which carried
\* next_cursor nxt, of a walk of at most mp pages
WalkDone(nxt, n, mp) == ~Truthy(nxt) \/ n >= mp

\* the response of a walk that has had none
NoResponse == [results |-> << >>, next_cursor |-> Null]

\* first lines of get_citing_works
StartWalk(id, pp, mp) ==
  /\ wid' = id
  /\ per_page' = pp
  /\ max_pages' = mp
  /\ out' = << >>
  /\ cursor' = StarCursor
  /\ npage' = 0
  /\ lastlen' = 0
  /\ sent' = Null
  /\ resp' = NoResponse
  /\ allfull' = TRUE

\* Iterate with a cursor that is never advanced past "*"
Iterate_StaleCursor(res, nxt) ==
  /\ out' = out \o res
  /\ cursor' = cursor
  /\ npage' = npage + 1
  /\ lastlen' = Len(res)
  /\ sent' = cursor
  /\ resp' = [results |-> res, next_cursor |-> nxt]
  /\ allfull' = (allfull /\ Len(res) = per_page /\ Truthy(nxt))
  /\ served' = served + Len(res)
  /\ UNCHANGED << wid, per_page, max_pages, fault >>

\* one iteration of the loop whose request is answered by results res and
\* next cursor nxt
Iterate(res, nxt) ==
  /\ out' = out \o res
  /\ cursor' = nxt
  /\ npage' = npage + 1
  /\ lastlen' = Len(res)
  /\ sent' = cursor
  /\ resp' = [results |-> res, next_cursor |-> nxt]
  /\ allfull' = (allfull /\ Len(res) = per_page /\ Truthy(nxt))
  /\ served' = served + Len(res)
  /\ UNCHANGED << wid, per_page, max_pages, fault >>

\* one iteration whose request raises in ox_get: the frame of
\* get_citing_works is unwound and its list is lost
IterateRaise ==
  /\ out' = << >>
  /\ npage' = npage + 1
  /\ sent' = cursor
  /\ fault' = TRUE
  /\ UNCHANGED << wid, per_page, max_pages, cursor, lastlen, resp, allfull,
                  served >>

---------------------------------------------------------------------------
(* citing_countries *)

\* counts[cc] = counts.get(cc, 0) + 1
Inc(d, key) == Put(d, key, (IF Has(d, key) THEN Lookup(d, key) ELSE 0) + 1)

RECURSIVE TallyInsts_NoUpper(_, _)
\* TallyInsts without cc.upper()
TallyInsts_NoUpper(insts, d) ==
  IF insts = << >> THEN d
  ELSE LET cc == GetNone(Head(insts).country_code)
       IN  TallyInsts_NoUpper(Tail(insts), IF Truthy(cc) THEN Inc(d, cc.v) ELSE d)

RECURSIVE TallyInsts(_, _)
\* the innermost loop, over the institutions of one authorship
TallyInsts(insts, d) ==
  IF insts = << >> THEN d
  ELSE LET cc == GetNone(Head(insts).country_code)
       IN  TallyInsts(Tail(insts), IF Truthy(cc) THEN Inc(d, Upper(cc.v)) ELSE d)

RECURSIVE TallyAuths(_, _)
\* the loop over the authorships of one work
TallyAuths(auths, d) ==
  IF auths = << >> THEN d
  ELSE TallyAuths(Tail(auths),
                  TallyInsts(Get(Head(auths).institutions, List(<< >>)).v, d))

RECURSIVE TallyWorks(_, _)
\* the loop over the citing works
TallyWorks(ws, d) ==
  IF ws = << >> THEN d
  ELSE TallyWorks(Tail(ws),
                  TallyAuths(Get(Head(ws).authorships, List(<< >>)).v, d))

\* iterating the authorships or the institutions of w raises TypeError: the
\* key is present and maps to None
IterRaises(w) ==
  \/ w.authorships.t = "null"
  \/ /\ w.authorships.t = "val"
     /\ \E n \in 1..Len(w.authorships.v) : w.authorships.v[n].institutions.t = "null"

\* CitingCountries returning only the works that added to a count
CitingCountries_OnlyCounted(ws) ==
  [pc |-> "ret", err |-> "", counts |-> TallyWorks(ws, << >>),
   citing |-> SelectSeq(ws, LAMBDA w : TallyWorks(<< w >>, << >>) # << >>)]

\* body of citing_countries after the fetch returned ws
CitingCountries(ws) ==
  IF \E n \in 1..Len(ws) : IterRaises(ws[n])
  THEN [pc |-> "raised", err |-> "TypeError", counts |-> << >>, citing |-> << >>]
  ELSE [pc |-> "ret", err |-> "", counts |-> TallyWorks(ws, << >>), citing |-> ws]

\* CitingCountriesRaise with the exception caught and the pages fetched so
\* far tallied and returned
CitingCountriesRaise_Partial(ws) ==
  [pc |-> "ret", err |-> "", counts |-> TallyWorks(ws, << >>), citing |-> ws]

\* citing_countries when the fetch raised with ws fetched so far: there is no
\* handler, the exception leaves citing_countries
CitingCountriesRaise(ws) ==
  [pc |-> "raised", err |-> "HTTPError", counts |-> << >>, citing |-> << >>]

\* default arguments of get_citing_works
DefaultPerPage == 200
DefaultMaxPages == 8

\* citing works of the provider
wNoAuth == Work(idA, Int_(1), NoVenue, Absent, Str(s2020), Str(sFoo))
wLowerUS ==
  Work(idB, Int_(2), NoVenue, List(<< Auth(List(<< Inst(Str(sus), Absent) >>)) >>),
       Str(s2020), Str(sFoo))
wUSDE ==
  Work(idX, Int_(3), NoVenue,
       List(<< Auth(List(<< Inst(Str(sUS), Absent) >>)),
               Auth(List(<< Inst(Str(sde), Absent), Inst(Null, Str(sAcme)) >>)) >>),
       Absent, Str(sFoo))
wNoCode ==
  Work(idY, AbsentInt, NoVenue,
       List(<< Auth(Absent), Auth(List(<< Inst(Absent, Absent), Inst(Str(<< >>), Absent) >>)) >>),
       Str(sNA), Absent)

CitingPool == { wNoAuth, wLowerUS, wUSDE, wNoCode }

\* citing works with a list that is null
mNullAuth == Work(idA, Int_(1), NoVenue, Null, Str(s2020), Str(sFoo))
mNullInsts == Work(idB, Int_(1), NoVenue, List(<< Auth(Null) >>), Str(s2020), Str(sFoo))

MalformedCitingPool == { wLowerUS, wNoCode, mNullAuth, mNullInsts }

\* records a direct get_citing_works call is answered with
WalkPool == { wNoAuth, wLowerUS }

---------------------------------------------------------------------------
(* notability_score *)

\* (work.get("host_venue") or {}).get("display_name") without a default:
\* the display_name field of the venue object, absent when there is none
VenueName(w) == IF w.host_venue.t = "val" THEN w.host_venue.v ELSE Absent

RECURSIVE InstNamesOf(_)
\* lower-cased non-empty display names of a list of institutions
InstNamesOf(insts) ==
  IF insts = << >> THEN << >>
  ELSE LET nm == Lower(OrElse(GetNone(Head(insts).display_name), Str(<< >>)).v)
       IN  (IF nm # << >> THEN << nm >> ELSE << >>) \o InstNamesOf(Tail(insts))

RECURSIVE InstNames(_)
\* the list insts of notability_score, from a list of authorships
InstNames(auths) ==
  IF auths = << >> THEN << >>
  ELSE InstNamesOf(Get(Head(auths).institutions, List(<< >>)).v)
       \o InstNames(Tail(auths))

\* bonus of notability_score
Bonus(venue, insts) ==
  (IF \E k \in TOP_VENUES : Contains(Lower(venue), k) THEN 1 ELSE 0)
  + (IF \E n \in 1..Len(insts) : \E k \in TOP_INSTITUTIONS : Contains(insts[n], k)
     THEN 1 ELSE 0)

Pow10(n) == IF n = 0 THEN 1 ELSE IF n = 1 THEN 10 ELSE 100

\* notability_score raises TypeError: a list that is None is iterated, or
\* None + 1 is computed
NotabilityRaises(w) == IterRaises(w) \/ w.cited_by_count.t = "null"

\* notability_score, as the natural number N with score = log10(N):
\* log10(c+1) + bonus + log10(ifv+1) = log10((c+1) * 10^bonus * (ifv+1)).
\* log10 is increasing, so scores compare as these numbers do (the rounding
\* of floating point sums is not modelled).
NotabilityScore(w, lk) ==
  LET c == Get(w.cited_by_count, Int_(0)).v
      venue == OrElse(GetNone(VenueName(w)), Str(<< >>))
      insts == InstNames(Get(w.authorships, List(<< >>)).v)
      ifv == IFGet(lk, venue)
  IN  (c + 1) * Pow10(Bonus(venue.v, insts)) * (ifv + 1)

---------------------------------------------------------------------------
(* second_order *)

\* Replaces with >= for >: on equal counts the later record wins
Replaces_OnTies(s, old) ==
  Get(s.cited_by_count, Int_(0)).v >= Get(old.cited_by_count, Int_(0)).v

\* the test that lets s replace the entry old of l2_map
Replaces(s, old) ==
  Get(s.cited_by_count, Int_(0)).v > Get(old.cited_by_count, Int_(0)).v

\* comparing the counts of s and old raises TypeError: one of them is None
CompareRaises(s, old) ==
  s.cited_by_count.t = "null" \/ old.cited_by_count.t = "null"

RECURSIVE MergeSub(_, _)
\* the loop over sub inside the try block; a TypeError ends the loop in the
\* except clause, which keeps what was merged before it
MergeSub(m, sub) ==
  IF sub = << >> THEN m
  ELSE LET s == Head(sub)
           sid == GetNone(s.id)
       IN  IF ~Truthy(sid) THEN MergeSub(m, Tail(sub))
           ELSE IF ~Has(m, sid.v) THEN MergeSub(Put(m, sid.v, s), Tail(sub))
           ELSE IF CompareRaises(s, Lookup(m, sid.v)) THEN m
           ELSE IF Replaces(s, Lookup(m, sid.v))
                THEN MergeSub(Put(m, sid.v, s), Tail(sub))
           ELSE MergeSub(m, Tail(sub))

\* the row second_order builds for the entry s
Row(s, lk) ==
  LET venue == Get(VenueName(s), Str(<< >>))
  IN  [ title |-> Get(s.display_name, Str(<< >>)),
        venue |-> venue,
        IF_ |-> IFGet(lk, venue),
        year |-> Get(s.publication_year, Str(<< >>)),
        cited_by |-> Get(s.cited_by_count, Int_(0)).v,
        openalex_id |-> Get(s.id, Str(<< >>)),
        score |-> NotabilityScore(s, lk) ]

\* Before with the score as the only sort key
Before_ScoreOnly(a, b) == a.score > b.score

\* row a sorts strictly before row b under
\* sort_values(["score","cited_by","IF"], ascending=False)
Before(a, b) ==
  \/ a.score > b.score
  \/ a.score = b.score /\ a.cited_by > b.cited_by
  \/ a.score = b.score /\ a.cited_by = b.cited_by /\ a.IF_ > b.IF_

RECURSIVE InsertRow(_, _)
\* r put into the sorted rs behind every row that does not sort after it
InsertRow(r, rs) ==
  IF rs = << >> THEN << r >>
  ELSE IF Before(r, Head(rs)) THEN << r >> \o rs
  ELSE << Head(rs) >> \o InsertRow(r, Tail(rs))

RECURSIVE SortValues(_, _)
\* the stable descending sort: the rows rs put one by one into acc
SortValues(rs, acc) ==
  IF rs = << >> THEN acc
  ELSE SortValues(Tail(rs), InsertRow(Head(rs), acc))

\* ExceptPass that merges the pages fetched before the failure
ExceptPass_MergesPartial(m, partial) == MergeSub(m, partial)

\* the merged table after `except: pass` caught a failure of the fetch whose
\* earlier pages held the records partial: get_citing_works raised before
\* `sub` was bound, so the inner loop never ran
ExceptPass(m, partial) == m

\* the part of second_order after the loop, for the merged table m:
\* building a row raises TypeError when notability_score does, and
\* sort_values raises KeyError on the column-less frame of an empty list
Rank(m, lk) ==
  IF \E n \in 1..Len(m) : NotabilityRaises(m[n].v)
  THEN [pc |-> "raised", err |-> "TypeError", rows |-> << >>]
  ELSE IF m = << >>
  THEN [pc |-> "raised", err |-> "KeyError", rows |-> << >>]
  ELSE [pc |-> "ret", err |-> "",
        rows |-> SortValues([n \in 1..Len(m) |-> Row(m[n].v, lk)], << >>)]

\* NextWork without the `if not wid: continue` test
NextWork_NoSkip(l, n) == IF n <= Len(l) THEN n ELSE 0

\* index of the first work of l from index n on that passes `if not wid:
\* continue`, 0 if there is none
NextWork(l, n) ==
  LET js == { j \in n..Len(l) : Truthy(GetNone(l[j].id)) }
  IN  IF js = {} THEN 0 ELSE CHOOSE j \in js : \A k \in js : j <= k

\* arguments of second_order: its defaults (the Impact tab passes smaller
\* ones, 50/3/60/1, whose walks are walks of these too)
SecondOrderArgs ==
  { [per_l1 |-> 80, pages_l1 |-> 5, per_l2 |-> 80, pages_l2 |-> 2] }

\* impact-factor tables second_order is called with
RankTables ==
  { [kind |-> "frame", rows |-> << [venue |-> sFoo, num |-> TRUE, val |-> 9] >>] }

\* first-hop works of the provider
hA == Work(idA, Int_(1), NoVenue, Absent, Absent, Absent)
hB == Work(idB, Int_(1), NoVenue, Absent, Absent, Absent)
hNoId == Work(Absent, Int_(1), NoVenue, Absent, Absent, Absent)

FirstHopPool == { hA, hB, hNoId }

\* second-hop works of the provider
x5a == Work(idX, Int_(5), Venue(Str(sNature)), Absent, Str(s2020), Str(<<"a">>))
x9 == Work(idX, Int_(9), NoVenue, Absent, Absent, Str(<<"b">>))
x5c == Work(idX, Int_(5), NullVenue, Absent, Str(sNA), Str(<<"c">>))
yMIT ==
  Work(idY, AbsentInt, Venue(Null),
       List(<< Auth(List(<< Inst(Absent, Str(sMIT)) >>)) >>), Str(sNA), Str(<<"y">>))
zFoo == Work(idZ, Int_(0), Venue(Str(sFoo)), Absent, Str(s2020), Str(<<"z">>))
sNoId == Work(Absent, Int_(7), NoVenue, Absent, Absent, Absent)

SecondHopPool == { x5a, x9, x5c, yMIT, zFoo, sNoId }

\* second-hop works with a cited_by_count or a list that is null
mNullCount == Work(idX, NullInt, NoVenue, Absent, Absent, Str(<<"m">>))
mNullAuthY == Work(idY, Int_(2), NoVenue, Null, Absent, Str(<<"n">>))

MalformedSecondHopPool == { x9, yMIT, mNullCount, mNullAuthY }

---------------------------------------------------------------------------
(* Calls and steps *)

\* a response body: its text and the choices[0].message.content of its JSON
\* (absent when the text is not JSON or lacks the key)
Body(text, content) == [text |-> text, content |-> content]

\* no POST attempt has been made
NoOutcome == [kind |-> "none", status |-> 0, body |-> Body(<< >>, Absent)]

\* the error part of a call_glm result that is not an error
NoError == [kind |-> "", exc |-> "", n |-> 0]

\* the value of res before call_glm has returned
NoResult == [t |-> "none", error |-> NoError, raw |-> << >>, content |-> Absent]

\* the row Tab 2 creates when the session has no pubs
BlankPub ==
  [title |-> Str(<< >>), journal |-> Str(<< >>), year |-> Str(<< >>),
   citations |-> Int_(0),
   countries |-> <<"U", "S", ";", "C", "N">>]

Idle ==
  /\ op = "none" /\ pc = "idle" /\ wid = Null /\ per_page = 0 /\ max_pages = 0
  /\ out = << >> /\ cursor = Null /\ npage = 0 /\ lastlen = 0 /\ sent = Null
  /\ resp = NoResponse /\ allfull = TRUE /\ fault = FALSE
  /\ served = 0 /\ counts = << >> /\ citing = << >>
  /\ per_l2 = 0 /\ pages_l2 = 0 /\ l1 = << >>
  /\ i = 0 /\ l2_map = << >> /\ seen = << >> /\ failed = {} /\ rows = << >>
  /\ err = ""

\* the session before any handler has run: Tab 2 puts one blank row in pubs
Init ==
  /\ lookup = << >> /\ venue_q = Null /\ if_ret = 0
  /\ Idle
  /\ timeout_s = 0 /\ attempt = 0 /\ outcome = NoOutcome
  /\ last = << >> /\ slept = 0 /\ glm_res = NoResult
  /\ view = "" /\ pubs = << BlankPub >> /\ item = Null

ifVars == << lookup, venue_q, if_ret >>
glmVars == << timeout_s, attempt, outcome, last, slept, glm_res >>
uiVars == << glmVars, view, pubs, item >>
ccVars == << counts, citing >>
soVars == << per_l2, pages_l2, l1, i, l2_map, seen, failed, rows >>

\* a caller calls get_citing_works(id, pp, mp)
CallGetCitingWorks ==
  /\ pc = "idle"
  /\ \E pp \in 1..MaxPerPage, mp \in 1..MaxPages : StartWalk(idW1, pp, mp)
  /\ op' = "get_citing_works" /\ pc' = "walk"
  /\ UNCHANGED << uiVars, ifVars, ccVars, soVars, fault, served, err >>

\* a page request of a direct get_citing_works call is answered
GcwPage ==
  /\ op = "get_citing_works" /\ pc = "walk"
  /\ \E res \in Pages(WalkPool, per_page), nxt \in NextCursors :
       /\ Iterate(res, nxt)
       /\ pc' = IF WalkDone(nxt, npage + 1, max_pages) THEN "ret" ELSE "walk"
  /\ UNCHANGED << uiVars, ifVars, ccVars, soVars, op, err >>

\* a page request of a direct get_citing_works call fails
GcwFail ==
  /\ op = "get_citing_works" /\ pc = "walk"
  /\ IterateRaise
  /\ pc' = "raised" /\ err' = "HTTPError"
  /\ UNCHANGED << uiVars, ifVars, ccVars, soVars, op >>

\* a caller calls citing_countries(id)
CallCitingCountries ==
  /\ pc = "idle"
  /\ StartWalk(idW1, DefaultPerPage, DefaultMaxPages)
  /\ op' = "citing_countries" /\ pc' = "walk"
  /\ UNCHANGED << uiVars, ifVars, ccVars, soVars, fault, served, err >>

\* a page request of citing_countries is answered; after the last one the
\* tally runs and citing_countries returns
CcPageOf(pool) ==
  /\ op = "citing_countries" /\ pc = "walk"
  /\ \E res \in Pages(pool, Min(per_page, MaxWorks - served)),
        nxt \in NextCursors :
       /\ Iterate(res, nxt)
       /\ IF WalkDone(nxt, npage + 1, max_pages)
          THEN LET r == CitingCountries(out \o res)
               IN  /\ pc' = r.pc /\ err' = r.err
                   /\ counts' = r.counts /\ citing' = r.citing
          ELSE UNCHANGED << pc, err, counts, citing >>
  /\ UNCHANGED << uiVars, ifVars, soVars, op >>

CcPage == CcPageOf(CitingPool)

\* the same when the provider also holds records with null lists
CcPageMalformed == CcPageOf(MalformedCitingPool)

\* a page request of citing_countries fails
CcFail ==
  /\ op = "citing_countries" /\ pc = "walk"
  /\ IterateRaise
  /\ LET r == CitingCountriesRaise(out)
     IN  /\ pc' = r.pc /\ err' = r.err
         /\ counts' = r.counts /\ citing' = r.citing
  /\ UNCHANGED << uiVars, ifVars, soVars, op >>

\* the loop of second_order from first-hop index n on, with merged table m:
\* the next fetch is started, or the loop is over and the table is ranked
LoopFrom(l, n, m) ==
  LET j == NextWork(l, n)
  IN  IF j # 0
      THEN /\ StartWalk(l[j].id, per_l2', pages_l2')
           /\ i' = j /\ pc' = "l2" /\ err' = "" /\ rows' = << >>
      ELSE LET r == Rank(m, lookup)
           IN  /\ i' = Len(l) /\ pc' = r.pc /\ err' = r.err /\ rows' = r.rows
               /\ wid' = Null /\ per_page' = 0 /\ max_pages' = 0
               /\ out' = << >> /\ cursor' = Null /\ npage' = 0
               /\ lastlen' = 0 /\ sent' = Null /\ resp' = NoResponse
               /\ allfull' = TRUE

\* a caller calls second_order(id, ifdb, ...) with a database built of df
CallSecondOrder ==
  /\ pc = "idle"
  /\ \E df \in RankTables, a \in SecondOrderArgs :
       /\ lookup' = ImpactFactorDB(df)
       /\ per_l2' = a.per_l2 /\ pages_l2' = a.pages_l2
       /\ StartWalk(idW1, a.per_l1, a.pages_l1)
  /\ op' = "second_order" /\ pc' = "l1"
  /\ UNCHANGED << uiVars, venue_q, if_ret, ccVars, l1, i, l2_map, seen, failed, rows,
                  fault, served, err >>

\* a page request of the first-hop fetch is answered; after the last one the
\* loop over l1 starts
SoL1Page ==
  /\ op = "second_order" /\ pc = "l1"
  /\ \E res \in Pages(FirstHopPool, Min(per_page, MaxL1Works - served)),
        nxt \in HopCursors :
       IF WalkDone(nxt, npage + 1, max_pages)
       THEN /\ l1' = out \o res
            /\ served' = served + Len(res)
            /\ UNCHANGED << per_l2, pages_l2 >>
            /\ LoopFrom(out \o res, 1, l2_map)
       ELSE /\ Iterate(res, nxt)
            /\ UNCHANGED << pc, err, rows, l1, i, per_l2, pages_l2 >>
  /\ UNCHANGED << uiVars, ifVars, ccVars, op, l2_map, seen, failed, fault >>

\* a page request of the first-hop fetch fails: it is outside the try block
SoL1Fail ==
  /\ op = "second_order" /\ pc = "l1"
  /\ IterateRaise
  /\ pc' = "raised" /\ err' = "HTTPError"
  /\ UNCHANGED << uiVars, ifVars, ccVars, soVars, op >>

\* a page request of the fetch for first-hop work i is answered; after the
\* last one the records are merged and the loop goes on
SoL2PageOf(pool) ==
  /\ op = "second_order" /\ pc = "l2"
  /\ \E res \in Pages(pool,
                      Min(per_page, MaxL2Works - (served - Len(l1)))),
        nxt \in HopCursors :
       IF WalkDone(nxt, npage + 1, max_pages)
       THEN LET m == MergeSub(l2_map, out \o res)
            IN  /\ l2_map' = m
                /\ seen' = seen \o (out \o res)
                /\ served' = served + Len(res)
                /\ UNCHANGED << per_l2, pages_l2 >>
                /\ LoopFrom(l1, i + 1, m)
       ELSE /\ Iterate(res, nxt)
            /\ UNCHANGED << pc, err, rows, i, per_l2, pages_l2, l2_map, seen >>
  /\ UNCHANGED << uiVars, ifVars, ccVars, op, l1, failed, fault >>

SoL2Page == SoL2PageOf(SecondHopPool)

\* the same when the provider also holds records with null fields
SoL2PageMalformed == SoL2PageOf(MalformedSecondHopPool)

\* a page request of the fetch for first-hop work i fails: the except clause
\* swallows the exception and the loop goes on with the next work
SoL2Fail ==
  /\ op = "second_order" /\ pc = "l2"
  /\ failed' = failed \cup {i}
  /\ UNCHANGED << per_l2, pages_l2, served >>
  /\ LET m == ExceptPass(l2_map, out)
     IN  /\ l2_map' = m
         /\ LoopFrom(l1, i + 1, m)
  /\ UNCHANGED << uiVars, ifVars, ccVars, op, l1, seen, fault >>

callVars ==
  << pc, wid, per_page, max_pages, out, cursor, npage, lastlen, sent, resp,
     allfull, fault, served, counts, citing, per_l2, pages_l2, l1, i, l2_map, seen,
     failed, rows, err >>

\* a caller builds ImpactFactorDB(df)
NewImpactFactorDB ==
  /\ pc = "idle"
  /\ \E df \in Tables : lookup' = ImpactFactorDB(df)
  /\ op' = "ImpactFactorDB" /\ venue_q' = Null /\ if_ret' = 0
  /\ UNCHANGED << uiVars, callVars >>

\* a caller calls get(venue) on the database
CallGet ==
  /\ pc = "idle"
  /\ \E venue \in Venues : venue_q' = venue /\ if_ret' = IFGet(lookup, venue)
  /\ op' = "ImpactFactorDB.get"
  /\ UNCHANGED << lookup, uiVars, callVars >>

NextIF ==
  \/ NewImpactFactorDB
  \/ CallGet

SpecIF == Init /\ [][NextIF]_vars

Next ==
  \/ CallSecondOrder
  \/ SoL1Page
  \/ SoL1Fail
  \/ SoL2Page
  \/ SoL2Fail
  \/ CallGetCitingWorks
  \/ GcwPage
  \/ GcwFail
  \/ CallCitingCountries
  \/ CcPage
  \/ CcFail

Spec == Init /\ [][Next]_vars

\* the calls answered by a provider whose records may carry null fields
NextMalformed ==
  \/ CallSecondOrder
  \/ SoL1Page
  \/ SoL1Fail
  \/ SoL2PageMalformed
  \/ SoL2Fail
  \/ CallCitingCountries
  \/ CcPageMalformed
  \/ CcFail

SpecMalformed == Init /\ [][NextMalformed]_vars

---------------------------------------------------------------------------
(* call_glm and the evaluate handler of Tab 5 *)

\* seconds slept before each attempt
backoffs == << 0, 2, 5 >>

\* statuses call_glm reports as "API busy"
BusyStatuses == { 429, 500, 502, 503, 504 }

\* statuses the endpoint answers with
Statuses == { 200, 400, 401 } \cup BusyStatuses

\* bodies the endpoint answers with: a completion, JSON without choices,
\* text that is not JSON, nothing
Bodies ==
  { Body(<<"{", "c", "}">>, Str(<<"r">>)), Body(<<"{", "}">>, Absent),
    Body(<<"<">>, Absent), Body(<< >>, Absent) }

\* what requests.post can do: return a response, or raise
PostOutcomes ==
  { [kind |-> "response", status |-> st, body |-> b] : st \in Statuses, b \in Bodies }
    \cup { [kind |-> k, status |-> 0, body |-> Body(<< >>, Absent)] :
              k \in {"ReadTimeout", "ConnectionError"} }

\* values of the timeout slider the model draws from
TimeoutChoices == { 30, 90, 180 }

\* the attempt reaches `return {"ok": True, ...}`
Succeeds(o) ==
  /\ o.kind = "response"
  /\ o.status \notin BusyStatuses
  /\ o.status < 400
  /\ o.body.content.t = "val"

\* the error a failed attempt would be reported with: the busy branch, the
\* ReadTimeout clause, or the general except clause (raise_for_status,
\* resp.json(), the subscripts of data, any other exception of post)
AttemptError(o, ts) ==
  IF o.kind = "ReadTimeout"
  THEN [kind |-> "Timeout after", exc |-> "ReadTimeout", n |-> ts]
  ELSE IF o.kind # "response"
  THEN [kind |-> "API request failed", exc |-> o.kind, n |-> 0]
  ELSE IF o.status \in BusyStatuses
  THEN [kind |-> "API busy", exc |-> "", n |-> o.status]
  ELSE IF o.status >= 400
  THEN [kind |-> "API request failed", exc |-> "HTTPError", n |-> o.status]
  ELSE [kind |-> "API request failed", exc |-> "ValueError", n |-> 0]

\* RetryAllowed that also continues after the last attempt
RetryAllowed_Always(n) == n <= Len(backoffs)

\* `if i<len(backoffs): continue`
RetryAllowed(n) == n < Len(backoffs)

\* the evaluate button is pressed with or without an API key
ClickEvaluate ==
  /\ pc = "idle"
  /\ \E key \in BOOLEAN, ts \in TimeoutChoices :
       IF key
       THEN /\ op' = "call_glm" /\ pc' = "post" /\ timeout_s' = ts
            /\ attempt' = 0 /\ last' = << >> /\ slept' = 0
            /\ UNCHANGED view
       ELSE /\ op' = "evaluate" /\ pc' = "ret" /\ view' = "error"
            /\ UNCHANGED << timeout_s, attempt, last, slept >>
  /\ UNCHANGED << outcome, glm_res, pubs, item, ifVars, wid, per_page,
                  max_pages, out, cursor, npage, lastlen, sent, resp, allfull,
                  fault, served, ccVars, soVars, err >>

\* one iteration of the loop of call_glm: the sleep, the POST and what
\* follows it; when call_glm returns, the handler shows the error or goes on
\* with the content.  A `continue` in the last iteration leaves the loop and
\* call_glm returns None, on which `"error" in res` raises TypeError.
GlmPost ==
  /\ op = "call_glm" /\ pc = "post" /\ attempt < Len(backoffs)
  /\ \E o \in PostOutcomes :
       LET n == attempt + 1
           text == IF o.kind = "response" THEN o.body.text ELSE last
       IN  /\ attempt' = n /\ slept' = slept + backoffs[n]
           /\ outcome' = o /\ last' = text
           /\ IF Succeeds(o)
              THEN /\ glm_res' = [t |-> "ok", error |-> NoError, raw |-> << >>,
                                  content |-> o.body.content]
                   /\ pc' = "ret" /\ view' = "content" /\ err' = ""
              ELSE IF RetryAllowed(n)
              THEN IF n < Len(backoffs)
                   THEN UNCHANGED << glm_res, pc, view, err >>
                   ELSE /\ glm_res' = [NoResult EXCEPT !.t = "None"]
                        /\ pc' = "raised" /\ err' = "TypeError"
                        /\ UNCHANGED view
              ELSE /\ glm_res' = [t |-> "error",
                                  error |-> AttemptError(o, timeout_s),
                                  raw |-> text, content |-> Absent]
                   /\ pc' = "ret" /\ view' = "error" /\ err' = ""
  /\ UNCHANGED << timeout_s, pubs, item, ifVars, op, wid, per_page, max_pages,
                  out, cursor, npage, lastlen, sent, resp, allfull, fault,
                  served, ccVars, soVars >>

NextGLM ==
  \/ ClickEvaluate
  \/ GlmPost

\* requests.post with a timeout returns or raises, so a pending attempt is
\* eventually made
SpecGLM == Init /\ [][NextGLM]_vars /\ WF_vars(GlmPost)

---------------------------------------------------------------------------
(* The resolve handlers of Tab 2 *)

\* a JSON object, or the item a resolver returned
Obj(w) == [t |-> "val", v |-> w]

\* upper-case letters in code point order
Letters ==
  << "A", "B", "C", "D", "E", "F", "G", "H", "I", "J", "K", "L", "M",
     "N", "O", "P", "Q", "R", "S", "T", "U", "V", "W", "X", "Y", "Z" >>

Ord(c) == CHOOSE n \in 1..Len(Letters) : Letters[n] = c

\* a < b for str
RECURSIVE StrLess(_, _)
StrLess(a, b) ==
  IF b = << >> THEN FALSE
  ELSE IF a = << >> THEN TRUE
  ELSE IF Head(a) = Head(b) THEN StrLess(Tail(a), Tail(b))
  ELSE Ord(Head(a)) < Ord(Head(b))

\* sorted(S) for a set of str
RECURSIVE SortedStrs(_)
SortedStrs(S) ==
  IF S = {} THEN << >>
  ELSE LET m == CHOOSE x \in S : \A y \in S \ {x} : StrLess(x, y)
       IN  << m >> \o SortedStrs(S \ {m})

\* sep.join(xs)
RECURSIVE Join(_, _)
Join(sep, xs) ==
  IF xs = << >> THEN << >>
  ELSE IF Len(xs) = 1 THEN xs[1]
  ELSE xs[1] \o sep \o Join(sep, Tail(xs))

\* the row a handler appends for item it and country tally cc
Pub(it, cc) ==
  [title |-> Get(it.display_name, Str(<< >>)),
   journal |-> Get(VenueName(it), Str(<< >>)),
   year |-> Get(it.publication_year, Str(<< >>)),
   citations |-> Get(it.cited_by_count, Int_(0)),
   countries |-> Join(<<";">>, SortedStrs(Keys(cc)))]

\* PubsAfter that appends whether or not citing_countries returned
PubsAfter_Always(p, it, r) == Append(p, Pub(it, r.counts))

\* st.session_state.pubs after the call of citing_countries ended as r: the
\* append is the statement after the call, so it runs only if the call
\* returned
PubsAfter(p, it, r) == IF r.pc = "ret" THEN Append(p, Pub(it, r.counts)) ELSE p

\* works the provider resolves a title or a DOI to
rFull == Work(idW1, Int_(3), Venue(Str(sNature)), Absent, Str(s2020), Str(<<"t">>))
rBare == Work(idW1, AbsentInt, NullVenue, Absent, Absent, Absent)
rNoId == Work(Absent, Int_(3), NoVenue, Absent, Absent, Str(<<"t">>))

ResolvePool == { rFull, rBare, rNoId }

\* citing works of the provider for a resolved work
ResolveCitingPool == { wLowerUS, wUSDE }

\* texts of the title and DOI inputs
Inputs == { << >>, <<" ">>, <<" ", "q">> }

\* answers to the search request of resolve_work_by_title: ox_get raises, or
\* returns JSON without "results", with an empty list, or with one work
SearchAnswers ==
  { [kind |-> "raise", results |-> Absent], [kind |-> "json", results |-> Absent],
    [kind |-> "json", results |-> List(<< >>)] }
    \cup { [kind |-> "json", results |-> List(<< Obj(w) >>)] : w \in ResolvePool }

\* resolve_work_by_title for a search answered by ans
ResolveWorkByTitle(ans) ==
  IF ans.kind = "raise"
  THEN [pc |-> "raised", err |-> "HTTPError", item |-> Null]
  ELSE LET rs == Get(ans.results, List(<< Null >>))
       IN  IF rs.v = << >>
           THEN [pc |-> "raised", err |-> "IndexError", item |-> Null]
           ELSE [pc |-> "ret", err |-> "", item |-> rs.v[1]]

\* answers to the request of resolve_work_by_doi: ox_get raises, or returns
\* the work
DoiAnswers ==
  { [kind |-> "raise", work |-> Null] }
    \cup { [kind |-> "json", work |-> Obj(w)] : w \in ResolvePool }

\* resolve_work_by_doi for a request answered by ans
ResolveWorkByDoi(ans) ==
  IF ans.kind = "raise"
  THEN [pc |-> "ret", err |-> "", item |-> Null]
  ELSE [pc |-> "ret", err |-> "", item |-> ans.work]

ResolveOps == { "resolve_title", "resolve_doi" }

\* a script run in which a resolve button is pressed, with text in the input
ClickResolve(name, text) ==
  /\ op' = name /\ item' = Null
  /\ wid' = Null /\ per_page' = 0 /\ max_pages' = 0 /\ out' = << >>
  /\ cursor' = Null /\ npage' = 0 /\ lastlen' = 0 /\ sent' = Null
  /\ resp' = NoResponse /\ allfull' = TRUE /\ fault' = FALSE /\ served' = 0
  /\ counts' = << >> /\ citing' = << >> /\ err' = ""
  /\ IF Strip(text) = << >>
     THEN pc' = "ret" /\ view' = "warning"
     ELSE pc' = "resolve" /\ view' = ""
  /\ UNCHANGED << glmVars, pubs, ifVars, soVars >>

\* no handler is running: the session is new, or the last script run ended
NoRun == pc = "idle" \/ (op \in ResolveOps /\ pc \in {"ret", "raised"})

\* the title button is pressed
ClickResolveTitle ==
  /\ NoRun /\ Len(pubs) < MaxPubs
  /\ \E ti \in Inputs : ClickResolve("resolve_title", ti)

\* the DOI button is pressed
ClickResolveDoi ==
  /\ NoRun /\ Len(pubs) < MaxPubs
  /\ \E di \in Inputs : ClickResolve("resolve_doi", di)

\* the handler from the return of the resolver, which ended as r, up to the
\* first page request of citing_countries
Resolved(r) ==
  /\ item' = r.item
  /\ IF r.pc = "raised"
     THEN /\ pc' = "raised" /\ err' = r.err
          /\ UNCHANGED << view, wid, per_page, max_pages, out, cursor, npage,
                          lastlen, sent, resp, allfull >>
     ELSE IF r.item.t # "val"
     THEN /\ pc' = "ret" /\ view' = "warning"
          /\ UNCHANGED << err, wid, per_page, max_pages, out, cursor, npage,
                          lastlen, sent, resp, allfull >>
     ELSE IF r.item.v.id.t = "absent"
     THEN /\ pc' = "raised" /\ err' = "KeyError"
          /\ UNCHANGED << view, wid, per_page, max_pages, out, cursor, npage,
                          lastlen, sent, resp, allfull >>
     ELSE /\ pc' = "walk"
          /\ StartWalk(r.item.v.id, DefaultPerPage, DefaultMaxPages)
          /\ UNCHANGED << view, err >>
  /\ UNCHANGED << glmVars, pubs, ifVars, ccVars, soVars, op, fault, served >>

\* the search request of the title handler is answered
ResolveTitleAnswer ==
  /\ op = "resolve_title" /\ pc = "resolve"
  /\ \E ans \in SearchAnswers : Resolved(ResolveWorkByTitle(ans))

\* the request of the DOI handler is answered
ResolveDoiAnswer ==
  /\ op = "resolve_doi" /\ pc = "resolve"
  /\ \E ans \in DoiAnswers : Resolved(ResolveWorkByDoi(ans))

\* a page request of the handler's citing_countries call is answered; after
\* the last one the tally runs, the row is appended and success is shown
\* (the data editor drawn after the handlers, with no edit pending, hands
\* the list back and the script stores it again)
ResolveCcPage ==
  /\ op \in ResolveOps /\ pc = "walk"
  /\ \E res \in Pages(ResolveCitingPool, Min(per_page, MaxWorks - served)),
        nxt \in HopCursors :
       /\ Iterate(res, nxt)
       /\ IF WalkDone(nxt, npage + 1, max_pages)
          THEN LET r == CitingCountries(out \o res)
               IN  /\ pc' = r.pc /\ err' = r.err
                   /\ counts' = r.counts /\ citing' = r.citing
                   /\ pubs' = PubsAfter(pubs, item.v, r)
                   /\ view' = IF r.pc = "ret" THEN "success" ELSE view
          ELSE UNCHANGED << pc, err, counts, citing, pubs, view >>
  /\ UNCHANGED << glmVars, item, ifVars, soVars, op >>

\* a page request of the handler's citing_countries call fails: the
\* exception leaves the handler
ResolveCcFail ==
  /\ op \in ResolveOps /\ pc = "walk"
  /\ IterateRaise
  /\ LET r == CitingCountriesRaise(out)
     IN  /\ pc' = r.pc /\ err' = r.err
         /\ counts' = r.counts /\ citing' = r.citing
         /\ pubs' = PubsAfter(pubs, item.v, r)
  /\ UNCHANGED << glmVars, view, item, ifVars, soVars, op >>

NextPubs ==
  \/ ClickResolveTitle
  \/ ResolveTitleAnswer
  \/ ClickResolveDoi
  \/ ResolveDoiAnswer
  \/ ResolveCcPage
  \/ ResolveCcFail

SpecPubs == Init /\ [][NextPubs]_vars

---------------------------------------------------------------------------
(* Properties *)

Walking == pc \in {"walk", "l1", "l2"}

\* C1: a walk issues at most max_pages page requests whatever the provider
\* answers, and a direct call whose every request was answered with a full
\* page of per_page records and a non-empty next cursor returns exactly
\* max_pages * per_page records.
C1_PageCap ==
  /\ npage <= max_pages
  /\ (op = "get_citing_works" /\ pc = "ret" /\ allfull)
       => Len(out) = max_pages * per_page

\* a call with max_pages = per_page = 2 that was answered with full pages and
\* next cursors throughout has returned
C1_Witness ==
  /\ op = "get_citing_works" /\ pc = "ret" /\ allfull
  /\ max_pages = 2 /\ per_page = 2 /\ Len(out) = 4 /\ Truthy(cursor)

\* C2 as stated: after a response whose result list is empty no further page
\* request is issued, i.e. the loop of a direct call is never about to issue
\* a request when the last response was empty.
C2_EmptyPageEnds ==
  ~(op = "get_citing_works" /\ pc = "walk" /\ npage > 0 /\ lastlen = 0)

\* C2 amended: the walk ends at the first of two events, a response without
\* next cursor or the max_pages-th request.  While the loop runs, the last
\* response carried a next cursor and fewer than max_pages requests were
\* made, whether or not that response was empty; when the call has returned,
\* the last response carried no next cursor or was the max_pages-th.
C2_WalkEnds ==
  /\ (Walking /\ npage > 0) => (Truthy(cursor) /\ npage < max_pages)
  /\ (op = "get_citing_works" /\ pc = "ret")
       => (npage > 0 /\ (~Truthy(cursor) \/ npage = max_pages))

\* the loop goes on after an empty page that carried a next cursor
C2_Witness ==
  /\ op = "get_citing_works" /\ pc = "walk"
  /\ npage = 1 /\ lastlen = 0 /\ Truthy(cursor) /\ max_pages = 2

\* C3: when a page request of a first-hop fetch (of a direct call, of
\* citing_countries, or the first fetch of second_order) fails, the error
\* reaches the caller, nothing is returned (no mapping, no raw list, no
\* table) and nothing more happens: no further request, no retry.
C3_FirstHopAborts ==
  fault => /\ pc = "raised" /\ err = "HTTPError"
           /\ counts = << >> /\ citing = << >> /\ rows = << >>
           /\ ~ENABLED Next

\* the second page request of citing_countries failed after a first page
\* that carried records
C3_Witness ==
  /\ fault /\ op = "citing_countries" /\ npage = 2 /\ served > 0
  /\ pc = "raised"

\* positions of the second-hop records offered to the merge that carry the
\* identifier id
SeenAt(id) ==
  { n \in 1..Len(seen) : Truthy(GetNone(seen[n].id)) /\ seen[n].id.v = id }

SeenIds == { seen[n].id.v : n \in { m \in 1..Len(seen) : Truthy(GetNone(seen[m].id)) } }

CitedBy(s) == IF s.cited_by_count.t = "val" THEN s.cited_by_count.v ELSE 0

\* C4 as stated: once the second-hop fetch of some first-hop work has failed
\* and second_order is over, no error has reached the caller and the ranking
\* holds a row for every identified second-hop work of the fetches that
\* succeeded.
C4_BestEffort ==
  (op = "second_order" /\ failed # {} /\ pc \in {"ret", "raised"})
    => /\ pc = "ret" /\ err = ""
       /\ \A id \in SeenIds : \E n \in 1..Len(rows) : rows[n].openalex_id.v = id

\* C5: the merged table holds exactly one entry per identifier offered to
\* the merge, and the entry is the whole record of the earliest occurrence
\* among those with the greatest cited_by_count for that identifier.
C5_Dedup ==
  /\ Keys(l2_map) = SeenIds
  /\ \A n, m \in 1..Len(l2_map) : l2_map[n].k = l2_map[m].k => n = m
  /\ \A id \in SeenIds :
       LET best == { n \in SeenAt(id) :
                       \A m \in SeenAt(id) : CitedBy(seen[m]) <= CitedBy(seen[n]) }
           first == CHOOSE n \in best : \A m \in best : n <= m
       IN  Lookup(l2_map, id) = seen[first]

\* the lower count came first and the record of the higher count replaced it
C5_Witness ==
  /\ Len(seen) = 2 /\ seen[1] = x5a /\ seen[2] = x9
  /\ Len(l2_map) = 1 /\ l2_map[1].v = x9

\* number of positions of the sequence rs that hold r
Occurrences(rs, r) == Cardinality({ n \in 1..Len(rs) : rs[n] = r })

\* C6: the returned rows are in descending order of (score, cited_by, IF)
\* and are a permutation of the rows of the merged table.
C6_Sorted ==
  (op = "second_order" /\ pc = "ret") =>
    /\ \A n \in 1..(Len(rows) - 1) :
          \/ rows[n].score > rows[n + 1].score
          \/ /\ rows[n].score = rows[n + 1].score
             /\ rows[n].cited_by > rows[n + 1].cited_by
          \/ /\ rows[n].score = rows[n + 1].score
             /\ rows[n].cited_by = rows[n + 1].cited_by
             /\ rows[n].IF_ >= rows[n + 1].IF_
    /\ Len(rows) = Len(l2_map)
    /\ \A n \in 1..Len(l2_map) :
          Occurrences(rows, Row(l2_map[n].v, lookup))
            = Occurrences([m \in 1..Len(l2_map) |-> Row(l2_map[m].v, lookup)],
                          Row(l2_map[n].v, lookup))

\* two rows of equal score were merged in ascending order of cited_by and are
\* returned in descending order
C6_Witness ==
  /\ op = "second_order" /\ pc = "ret" /\ Len(rows) = 2
  /\ rows[1].score = rows[2].score /\ rows[1].cited_by > rows[2].cited_by
  /\ l2_map[1].k = rows[2].openalex_id.v

\* the (work, authorship, institution) positions of ws whose institution has
\* a country code that upper-cases to code
Hits(ws, code) ==
  { t \in UNION { UNION { { << n, a, k >> :
                              k \in 1..Len(ws[n].authorships.v[a].institutions.v) } :
                          a \in 1..Len(ws[n].authorships.v) } :
                  n \in 1..Len(ws) } :
      LET cc == ws[t[1]].authorships.v[t[2]].institutions.v[t[3]].country_code
      IN  cc.t = "val" /\ cc.v # << >> /\ Upper(cc.v) = code }

CountryCodes == { sUS, sDE }

RECURSIVE SumOf(_)
SumOf(d) == IF d = << >> THEN 0 ELSE Head(d).v + SumOf(Tail(d))

\* C7: the mapping citing_countries returns gives each upper-case country
\* code the number of (work, authorship, institution) triples of the fetched
\* list whose institution has that code in any case, and nothing else, so
\* the counts add up to the number of institutions with a country code.
C7_Counts ==
  (op = "citing_countries" /\ pc = "ret") =>
    /\ \A code \in CountryCodes :
          IF Hits(citing, code) = {} THEN ~Has(counts, code)
          ELSE Has(counts, code) /\ Lookup(counts, code) = Cardinality(Hits(citing, code))
    /\ Keys(counts) \subseteq CountryCodes
    /\ \A n, m \in 1..Len(counts) : counts[n].k = counts[m].k => n = m
    /\ SumOf(counts) = Cardinality(UNION { Hits(citing, code) : code \in CountryCodes })

\* the scenario of three citing works, two with one US institution and one
\* with a US and a DE institution on two authors
C7_Witness ==
  /\ op = "citing_countries" /\ pc = "ret"
  /\ citing = << wLowerUS, wLowerUS, wUSDE >>
  /\ Lookup(counts, sUS) = 3 /\ Lookup(counts, sDE) = 1

\* C8: the raw list citing_countries returns is the sequence the walk
\* fetched, works without a country code included; such works add to no
\* count, no fetched work gives an empty mapping and an empty list, and no
\* key of the mapping has count 0.
C8_RawList ==
  (op = "citing_countries" /\ pc = "ret") =>
    /\ citing = out
    /\ Len(citing) = served
    /\ (\A code \in CountryCodes : Hits(citing, code) = {}) => counts = << >>
    /\ served = 0 => (counts = << >> /\ citing = << >>)
    /\ \A n \in 1..Len(counts) : counts[n].v >= 1

\* works without any country code were fetched: they are in the raw list and
\* the mapping is empty
C8_Witness ==
  /\ op = "citing_countries" /\ pc = "ret"
  /\ citing = << wNoCode, wNoAuth >> /\ counts = << >>

\* C9 as stated: a record with missing or null fields never makes
\* citing_countries, notability_score or second_order fail and never makes
\* other records be dropped: no TypeError reaches the caller, the raw list
\* is the fetched list, and every identified second-hop record of a fetch
\* that succeeded has a row.
C9_NeverFatal ==
  /\ err # "TypeError"
  /\ (op = "citing_countries" /\ pc = "ret") => citing = out
  /\ (op = "second_order" /\ pc = "ret")
       => \A id \in SeenIds : \E n \in 1..Len(rows) : rows[n].openalex_id.v = id

\* C10 as stated: get returns the table's factor when the lower-cased venue
\* name is a key of the table, otherwise 25 when the lower-cased venue name
\* contains a prestige substring, otherwise 0; None and "" give 0.
C10_ExactLowercase ==
  op = "ImpactFactorDB.get" =>
    IF venue_q.t # "val" \/ venue_q.v = << >> THEN if_ret = 0
    ELSE IF \E n \in 1..Len(lookup) : lookup[n].k = Lower(venue_q.v)
         THEN \E n \in 1..Len(lookup) :
                lookup[n].k = Lower(venue_q.v) /\ if_ret = lookup[n].v
    ELSE IF \E k \in TOP_VENUES : Contains(Lower(venue_q.v), k) THEN if_ret = 25
    ELSE if_ret = 0

\* the venue name with its case folded and the blanks at both ends removed
Normalised(s) == Strip(Lower(s))

\* C10 amended: get returns the table's factor when the lower-cased venue
\* name with the blanks at its ends removed is a key of the table (also when
\* it contains a prestige substring), otherwise 25 when it contains a
\* prestige substring, otherwise 0; None and "" give 0, and without a table
\* only the substring rule applies.
C10_TrimmedLowercase ==
  op = "ImpactFactorDB.get" =>
    IF venue_q.t # "val" \/ venue_q.v = << >> THEN if_ret = 0
    ELSE IF \E n \in 1..Len(lookup) : lookup[n].k = Normalised(venue_q.v)
         THEN \E n \in 1..Len(lookup) :
                lookup[n].k = Normalised(venue_q.v) /\ if_ret = lookup[n].v
    ELSE IF \E k \in TOP_VENUES : Contains(Normalised(venue_q.v), k) THEN if_ret = 25
    ELSE if_ret = 0

\* a venue name with blanks around it and a prestige substring in it got the
\* factor of its table entry
C10_Witness ==
  /\ op = "ImpactFactorDB.get" /\ venue_q = Str(sNaturePad)
  /\ Has(lookup, Lower(sNature)) /\ if_ret = 40

\* C12: in get_citing_works the first request carries "*" and every later
\* request carries the next_cursor of the response just before it; each
\* answered request appends its page to the records gathered so far; a walk
\* goes on only after a response whose next_cursor is non-empty.
C12_CursorChain ==
  /\ [](Walking /\ npage > 0 => Truthy(resp.next_cursor))
  /\ [][npage' = npage + 1 =>
          /\ sent' = (IF npage = 0 THEN StarCursor ELSE resp.next_cursor)
          /\ ~fault' => out' = out \o resp'.results]_vars

\* a direct walk whose second request carried the first response's cursor,
\* which differs from the one the second response returned
C12_Witness ==
  /\ op = "get_citing_works" /\ pc = "ret" /\ npage = 2
  /\ sent = Str(<<"c", "2">>) /\ resp.next_cursor = Str(<< >>)
  /\ Len(out) = 3 /\ Len(resp.results) = 1

\* C13: the step in which the second-hop fetch of a first-hop work fails
\* leaves the merged table and the list of merged records as they were, so
\* the pages of that work fetched before the failure add nothing and the
\* entries of earlier works stay; every entry of the table is a record of a
\* fetch that completed.
C13_FailedWorkOmitted ==
  /\ [](\A n \in 1..Len(l2_map) : \E k \in 1..Len(seen) : seen[k] = l2_map[n].v)
  /\ [][failed' # failed => l2_map' = l2_map /\ seen' = seen]_vars

\* the fetch of the second first-hop work failed after a page with a record
\* had been received; the table holds the one record of the first work
C13_Witness ==
  /\ op = "second_order" /\ pc = "ret" /\ failed = {2}
  /\ Len(l2_map) = 1 /\ Len(seen) = 1 /\ served - Len(l1) = 2

\* C14: a second-hop walk is in progress only for a first-hop work that has
\* a non-empty id, and it asks for that id; a walk starts at a later index
\* than the walk before it, every work passed over in between has no id,
\* and while the index stays the same the walk only goes on to its next
\* page; every row of the returned table has a non-empty openalex_id.
C14_OnlyIdentified ==
  /\ [](pc = "l2" =>
          /\ i \in 1..Len(l1)
          /\ Truthy(GetNone(l1[i].id))
          /\ wid = l1[i].id)
  /\ [](\A n \in 1..Len(rows) : Truthy(rows[n].openalex_id))
  /\ [][pc' = "l2" /\ << pc, i >> # << pc', i' >> =>
          /\ npage' = 0
          /\ i' > i
          /\ \A j \in (i + 1)..(i' - 1) : ~Truthy(GetNone(l1'[j].id))]_vars
  /\ [][pc = "l2" /\ pc' = "l2" /\ i' = i =>
          npage' = npage + 1 \/ UNCHANGED vars]_vars

\* the first first-hop work had no id and the second was fetched; its page
\* held a record without id and one with, and the table has the one row
C14_Witness ==
  /\ op = "second_order" /\ pc = "ret" /\ failed = {}
  /\ l1 = << hNoId, hA >> /\ seen = << sNoId, x9 >>
  /\ Len(rows) = 1 /\ rows[1].openalex_id = idX

\* C15: when second_order finishes its loop with an empty merged table (the
\* first-hop fetch having succeeded), it returns an empty table and no
\* exception reaches the caller.
C15_EmptyTable ==
  (op = "second_order" /\ pc \in {"ret", "raised"} /\ ~fault /\ l2_map = << >>)
    => (pc = "ret" /\ err = "" /\ rows = << >>)

\* C11: call_glm makes at most 3 POST attempts; an attempt is made only
\* first or after a failed one; it returns "ok" exactly when the attempt
\* just made succeeded; while it is still in its loop fewer than 3 attempts
\* were made; it returns an error only after a failed third attempt, and the
\* error names that failure (busy status, timeout, or other exception);
\* once called it returns, and what it returns has "ok" or "error".
C11_ThreeAttempts ==
  /\ [](attempt <= 3)
  /\ [][attempt' = attempt + 1 => attempt = 0 \/ ~Succeeds(outcome)]_vars
  /\ [](op = "call_glm" =>
          /\ pc \in {"post", "ret"}
          /\ pc = "post" => attempt < 3 /\ glm_res.t = "none"
          /\ pc = "post" /\ attempt > 0 => ~Succeeds(outcome)
          /\ pc = "ret" => glm_res.t \in {"ok", "error"}
          /\ pc = "ret" => (glm_res.t = "ok" <=> Succeeds(outcome))
          /\ glm_res.t = "ok" => glm_res.content = outcome.body.content
          /\ glm_res.t = "error" =>
               /\ attempt = 3
               /\ outcome.kind = "ReadTimeout" =>
                    glm_res.error.kind = "Timeout after"
               /\ outcome.kind = "ConnectionError" =>
                    glm_res.error.kind = "API request failed"
               /\ outcome.kind = "response" /\ outcome.status \in {429, 500, 502, 503, 504} =>
                    /\ glm_res.error.kind = "API busy"
                    /\ glm_res.error.n = outcome.status
               /\ outcome.kind = "response" /\ outcome.status \notin {429, 500, 502, 503, 504} =>
                    glm_res.error.kind = "API request failed")
  /\ (op = "call_glm") ~> (pc = "ret")

\* two answers and then a read timeout: the error is the timeout of the
\* third attempt and raw is the text of the second answer
C11_Witness ==
  /\ op = "call_glm" /\ pc = "ret" /\ attempt = 3 /\ slept = 7
  /\ glm_res.t = "error" /\ glm_res.error.kind = "Timeout after"
  /\ outcome.kind = "ReadTimeout" /\ glm_res.raw = <<"<">>

\* C16: st.session_state.pubs changes only in the step in which the
\* citing_countries call of a resolve handler returns, for a resolved work
\* and with no page request failed; that step appends exactly one row to
\* the rows there were, whose countries are those of the full tally; every
\* step that shows success is such a step.
C16_AppendOnSuccess ==
  /\ [][pubs' # pubs =>
          /\ op \in ResolveOps /\ pc = "walk" /\ pc' = "ret"
          /\ item.t = "val" /\ ~fault' /\ err' = ""
          /\ view' = "success"
          /\ Len(pubs') = Len(pubs) + 1
          /\ SubSeq(pubs', 1, Len(pubs)) = pubs
          /\ citing' = out'
          /\ \A code \in CountryCodes :
               Contains(pubs'[Len(pubs')].countries, code) <=> Hits(out', code) # {}]_vars
  /\ [][view' = "success" /\ pc # pc' => Len(pubs') = Len(pubs) + 1]_vars
  /\ [](op \in ResolveOps /\ (pc = "raised" \/ view = "warning") =>
          view # "success")

\* a first resolve appended a row with two countries; in a second one the
\* second page request of citing_countries failed and pubs has two rows
C16_Witness ==
  /\ op \in ResolveOps /\ pc = "raised" /\ fault /\ npage = 2 /\ served = 1
  /\ Len(pubs) = 2 /\ pubs[1] = BlankPub
  /\ pubs[2].countries = <<"D", "E", ";", "U", "S">>

=============================================================================
